---------------------------- MODULE Spec2Model ----------------------------
(***************************************************************************)
(* A model of pulsar's EventLoop (src/pulsar/async/eventloop.py): the      *)
(* ready queue, the timer heap, the run/run_forever/run_until_complete     *)
(* drivers, the iteration cycle _run_once, stop(), the waker and the       *)
(* signal table.                                                           *)
(*                                                                         *)
(* Threads.  The loop thread is the thread that calls run*; its position   *)
(* is pc.  While pc = "idle" the same thread is the application, which     *)
(* may call the scheduling API.  One other thread may call the thread-safe *)
(* entry points (call_soon_threadsafe, stop, call_at, Handle.cancel) at    *)
(* any time.  A user callback is run to completion inside the step that    *)
(* dequeues its handle; what the callback does is chosen when it runs.     *)
(*                                                                         *)
(* Time is a discrete monotonic clock `now`; poll_timeout is one tick.     *)
(***************************************************************************)
EXTENDS Integers, Sequences, FiniteSets, TLC

\* ------------------------------------------------------------ bounds
\* Handles ever created (Handle and TimerHandle objects together).
MaxHandles == 4
\* The clock runs from 0 to MaxTime; every deadline lies in 0..MaxTime.
MaxTime == 3
\* Times io.poll raises instead of returning.
MaxFaults == 1
\* EventLoop.poll_timeout (0.5 s), in clock ticks.
PollTimeout == 1
\* Iterations counted where a looping call keeps the loop turning for ever.
MaxLoops == 5

VARIABLES
    handles,    \* handle id -> [kind, when, cancelled, seq, calls]
    ready,      \* EventLoop._ready: deque of handle ids, head first
    scheduled,  \* EventLoop._scheduled: the heapq list of timer ids
    name,       \* EventLoop._name: "None" or the running thread's name
    tid,        \* EventLoop.tid: 0 for None
    num_loops,  \* EventLoop._num_loops
    pc,         \* where the loop thread is
    mode,       \* which of run / run_forever / run_until_complete is active
    timeout,    \* the time the current poll may still block
    drainNow,   \* `now` read at the start of the timer drain
    held,       \* heappop's returnitem while its sift is in progress
    sift,       \* the locals of that sift: [endpos, newitem, parent, lt]
    todo,       \* handles of this iteration's batch not yet dequeued
    result,     \* how the last top-level run* call ended
    now,        \* the loop's clock, time()
    wake,       \* a byte is pending in the waker's pipe
    thr,        \* the other thread: "idle", or "wake" inside call_soon_threadsafe
    sigh,       \* _signal_handlers[SIGUSR1]: a handle id, 0 when absent
    fut,        \* the future given to run_until_complete
    futCb,      \* loop.stop is attached to the future as a done-callback
    nres,       \* what the run* call made by the callback just run did
    lastOut,    \* how the callback just run ended
    faults,     \* times io.poll has raised
    appends,    \* history: appends made to the ready queue so far
    lastDeq,    \* history: the append number of the last handle dequeued
    batchEnd,   \* history: the last append number when this run* call last
                \* measured todo (0: it has not yet)
    looping,    \* the LoopingCall made by call_repeatedly / call_every
    addRet,     \* what the last add_signal_handler call returned
    remRet      \* what the last remove_signal_handler call returned

vars == <<handles, ready, scheduled, name, tid, num_loops, pc, mode, timeout,
          drainNow, held, sift, todo, result, now, wake, thr, sigh,
          fut, futCb, nres, lastOut, faults, appends, lastDeq, batchEnd,
          looping, addRet, remRet>>

Ids == 1..MaxHandles
Times == 0..MaxTime

\* ------------------------------------------------------------ handles
\* asyncio.Handle / asyncio.TimerHandle as the loop sees them, with two
\* history fields: `seq` is the number of the append that put the handle on
\* the ready queue (0: not on it), `calls` counts the calls of its callback
\* (2 stands for two or more).
Handle(kind, when, seq) ==
    [kind |-> kind, when |-> when, cancelled |-> FALSE, seq |-> seq, calls |-> 0]

NewId == Len(handles) + 1
CanCreate == Len(handles) < MaxHandles

\* (mutant) the loop not looking at handle._cancelled
IsCancelledNever(hs, h) == FALSE

\* handle._cancelled, as _run_once and _handle_signal read it.
IsCancelled(hs, h) == hs[h].cancelled

\* The callback of h has been called once more.
Called(hs, h) == [hs EXCEPT ![h].calls = IF @ < 2 THEN @ + 1 ELSE @]

\* h occurs in the sequence s.
InSeq(s, h) == \E i \in DOMAIN s : s[i] = h

\* The loop has dequeued h.  Once it holds no reference to the object any
\* more, only the object's history (kind, cancelled, calls) is kept.
Retired(hs, h) ==
    IF InSeq(scheduled, h) \/ InSeq(Tail(ready), h)
    THEN hs
    ELSE [hs EXCEPT ![h].when = 0, ![h].seq = 0]

\* TimerHandle.__lt__: comparison by _when only.
Lt(hs, a, b) == hs[a].when < hs[b].when

\* ------------------------------------------------------------ heapq
\* heapq._siftdown(heap, startpos, pos), with newitem already taken out.
RECURSIVE SiftDownFrom(_, _, _, _, _)
SiftDownFrom(hs, heap, newitem, startpos, pos) ==
    IF pos > startpos
    THEN LET parentpos == pos \div 2
         IN  IF Lt(hs, newitem, heap[parentpos])
             THEN SiftDownFrom(hs, [heap EXCEPT ![pos] = heap[parentpos]],
                               newitem, startpos, parentpos)
             ELSE [heap EXCEPT ![pos] = newitem]
    ELSE [heap EXCEPT ![pos] = newitem]

\* heapq._siftup(heap, pos), with newitem already taken out and endpos the
\* list's length when the sift began: bubble the smaller child up to a leaf,
\* then sift newitem down from there.
RECURSIVE SiftUpFrom(_, _, _, _, _, _)
SiftUpFrom(hs, heap, newitem, startpos, pos, endpos) ==
    LET childpos == 2 * pos
        rightpos == childpos + 1
    IN  IF childpos <= endpos
        THEN LET c == IF rightpos <= endpos
                         /\ ~Lt(hs, heap[childpos], heap[rightpos])
                      THEN rightpos ELSE childpos
             IN  SiftUpFrom(hs, [heap EXCEPT ![pos] = heap[c]], newitem,
                            startpos, c, endpos)
        ELSE SiftDownFrom(hs, [heap EXCEPT ![pos] = newitem], newitem,
                          startpos, pos)

\* heapq.heappush(heap, item)
HeapPush(hs, heap, item) ==
    LET h1 == Append(heap, item)
    IN  SiftDownFrom(hs, h1, item, 1, Len(h1))

\* heapq.heappop(heap) run without interruption: <<returnitem, heap>>.
HeapPop(hs, heap) ==
    LET lastelt == heap[Len(heap)]
        rest == SubSeq(heap, 1, Len(heap) - 1)
    IN  IF rest = <<>>
        THEN <<lastelt, rest>>
        ELSE <<heap[1],
               SiftUpFrom(hs, [rest EXCEPT ![1] = lastelt], lastelt, 1, 1,
                          Len(rest))>>

\* heappop compares TimerHandles with Python code (__lt__), during which the
\* interpreter may switch threads; heappop takes no lock.  HeapPopCompares:
\* the pop makes at least one comparison (two or more items stay).
HeapPopCompares(heap) == Len(heap) >= 3

\* The list as it stands at heappop's first comparison: the last item has
\* replaced the root; with two items left the only child has already been
\* moved up and the comparison is the one of _siftdown.
HeapPopMid(heap) ==
    LET lastelt == heap[Len(heap)]
        rest == SubSeq(heap, 1, Len(heap) - 1)
    IN  IF Len(rest) = 2
        THEN <<rest[2], lastelt>>
        ELSE [rest EXCEPT ![1] = lastelt]

\* The locals of the interrupted sift: endpos (the list's length when the
\* sift began), newitem, parent (the item newitem is being compared with
\* when two items are left) and lt (what the comparison returns).
NoSift == [endpos |-> 0, newitem |-> 0, parent |-> 0, lt |-> FALSE]

HeapPopLocals(hs, mid) ==
    IF Len(mid) = 2
    THEN [endpos |-> 2, newitem |-> mid[2], parent |-> mid[1],
          lt |-> Lt(hs, mid[2], mid[1])]
    ELSE [endpos |-> Len(mid), newitem |-> mid[1], parent |-> 0,
          lt |-> Lt(hs, mid[2], mid[3])]

\* The rest of heappop's sift from that comparison on, undisturbed.
HeapPopRest(hs, mid) ==
    IF Len(mid) = 2
    THEN SiftDownFrom(hs, mid, mid[2], 1, 2)
    ELSE SiftUpFrom(hs, mid, mid[1], 1, 1, Len(mid))

\* The rest of the sift when the list grew during that comparison and the
\* build's heapq does not notice (the pure-Python heapq): the comparison was
\* made on the items the pop had read, endpos is the old length, and the
\* writes go to the list cur as the push left it.  f: the sift's locals.
HeapPopRestStale(hs, cur, f) ==
    IF f.endpos = 2
    THEN IF f.lt
         THEN [cur EXCEPT ![2] = f.parent, ![1] = f.newitem]
         ELSE [cur EXCEPT ![2] = f.newitem]
    ELSE LET c == IF f.lt THEN 2 ELSE 3
         IN  SiftUpFrom(hs, [cur EXCEPT ![1] = cur[c]], f.newitem, 1, c,
                        f.endpos)

\* ------------------------------------------------------------ LoopingCall
\* The LoopingCall object of call_repeatedly / call_every: `handler` is the
\* id of the Handle it is scheduled with (0: no LoopingCall was made),
\* `interval` its interval in ticks (0 for None), `cancelled` its own
\* _cancelled flag, which is not the handler's.  `waiting` says that the
\* callback's asynchronous result is not in yet.  Three history fields:
\* `iter` is num_loops at the callback's last call (0: never called),
\* `late` counts the calls made after cancel() (2 stands for two or more)
\* and `failed` says that the callback has raised or its result has failed.
NoLooping ==
    [handler |-> 0, interval |-> 0, cancelled |-> FALSE, waiting |-> FALSE,
     iter |-> 0, late |-> 0, failed |-> FALSE]

\* ------------------------------------------------------------ properties of the loop
\* EventLoop.running / is_running(): bool(self._name)
running == name # "None"

\* (mutant) active looking at the ready queue only
activeReady == ready # <<>>

\* EventLoop.active: bool(self._ready or self._scheduled)
active == ready # <<>> \/ scheduled # <<>>

Init ==
    /\ handles = <<>>
    /\ ready = <<>>
    /\ scheduled = <<>>
    /\ name = "None"
    /\ tid = 0
    /\ num_loops = 0
    /\ pc = "idle"
    /\ mode = "none"
    /\ timeout = 0
    /\ drainNow = 0
    /\ held = 0
    /\ sift = NoSift
    /\ todo = 0
    /\ result = "none"
    /\ now = 0
    /\ wake = FALSE
    /\ thr = "idle"
    /\ sigh = 0
    /\ fut = "pending"
    /\ futCb = FALSE
    /\ nres = "none"
    /\ lastOut = "none"
    /\ faults = 0
    /\ appends = 0
    /\ lastDeq = 0
    /\ batchEnd = 0
    /\ looping = NoLooping
    /\ addRet = <<>>
    /\ remRet = "none"


\* ------------------------------------------------------------ scheduling
\* (mutant) deque.appendleft in place of deque.append
ReadyAppendLeft(rdy, h) == <<h>> \o rdy

\* deque.append on EventLoop._ready
ReadyAppend(rdy, h) == Append(rdy, h)

\* call_soon(callback): a new Handle appended to the ready queue.  kind is
\* "cb" for a user callback, "stop" for _raise_stop_event_loop.  hs and rdy
\* are the handles and the ready queue the call finds.
CallSoon(kind, hs, rdy) ==
    /\ CanCreate
    /\ handles' = Append(hs, Handle(kind, 0, appends + 1))
    /\ ready' = ReadyAppend(rdy, NewId)
    /\ appends' = appends + 1

\* call_at(when, callback): a new TimerHandle pushed on the heap under _lock.
CallAt(when, hs) ==
    /\ CanCreate
    /\ handles' = Append(hs, Handle("timer", when, 0))
    /\ scheduled' = HeapPush(handles', scheduled, NewId)

\* (mutant) _write_to_self() that never wakes the poller
WriteToSelfNothing == wake

\* _write_to_self(): wake the poller, but only while the loop is running.
WriteToSelf == IF running THEN TRUE ELSE wake

\* The application (the loop thread while no run* call is active) ...
AppCallSoon ==
    /\ pc = "idle"
    /\ CallSoon("cb", handles, ready)
    /\ UNCHANGED <<scheduled, name, tid, num_loops, pc, mode, timeout, drainNow,
                   held, sift, todo, result, now, wake, thr, sigh,
                   fut, futCb, nres, lastOut, faults, lastDeq, batchEnd,
                   looping, addRet, remRet>>

\* ... stop(): call_soon_threadsafe(_raise_stop_event_loop), here on the
\* loop's own thread, so append and wake are one step.
AppStop ==
    /\ pc = "idle"
    /\ CallSoon("stop", handles, ready)
    /\ wake' = WriteToSelf
    /\ UNCHANGED <<scheduled, name, tid, num_loops, pc, mode, timeout, drainNow,
                   held, sift, todo, result, now, thr, sigh,
                   fut, futCb, nres, lastOut, faults, lastDeq, batchEnd,
                   looping, addRet, remRet>>

AppCallAt ==
    /\ pc = "idle"
    /\ \E when \in Times : CallAt(when, handles)
    /\ UNCHANGED <<ready, name, tid, num_loops, pc, mode, timeout, drainNow,
                   held, sift, todo, result, now, wake, thr, sigh,
                   fut, futCb, nres, lastOut, faults, appends, lastDeq, batchEnd,
                   looping, addRet, remRet>>

\* call_later(delay, callback) = call_at(time() + delay, callback)
AppCallLater ==
    /\ pc = "idle"
    /\ \E delay \in Times : now + delay \in Times /\ CallAt(now + delay, handles)
    /\ UNCHANGED <<ready, name, tid, num_loops, pc, mode, timeout, drainNow,
                   held, sift, todo, result, now, wake, thr, sigh,
                   fut, futCb, nres, lastOut, faults, appends, lastDeq, batchEnd,
                   looping, addRet, remRet>>

\* What the other thread may hand to call_soon: a callback through
\* call_soon_threadsafe ("cb", or "tcb" where the callbacks of the other
\* thread are told apart), or _raise_stop_event_loop through stop() ("stop").
ThreadKinds == {"cb", "tcb", "stop"}

\* The other thread: call_soon_threadsafe(cb) (kind "cb") and stop() (kind
\* "stop") are call_soon followed by _write_to_self, two steps the loop
\* thread can run between.
ThreadCallSoon(kinds) ==
    /\ thr = "idle"
    /\ \E kind \in ThreadKinds :
          /\ kind \in kinds
          /\ CallSoon(kind, handles, ready)
    /\ thr' = "wake"
    /\ UNCHANGED <<scheduled, name, tid, num_loops, pc, mode, timeout, drainNow,
                   held, sift, todo, result, now, wake, sigh,
                   fut, futCb, nres, lastOut, faults, lastDeq, batchEnd,
                   looping, addRet, remRet>>

ThreadWriteToSelf ==
    /\ thr = "wake"
    /\ wake' = WriteToSelf
    /\ thr' = "idle"
    /\ UNCHANGED <<handles, ready, scheduled, name, tid, num_loops, pc, mode,
                   timeout, drainNow, held, sift, todo, result, now, sigh,
                   fut, futCb, nres, lastOut, faults, appends, lastDeq, batchEnd,
                   looping, addRet, remRet>>

\* call_at from the other thread.  The push holds _lock, which the loop's
\* heappop does not take: while pc = "sift" the push works on the list the
\* interrupted pop left.
ThreadCallAt ==
    /\ thr = "idle"
    /\ \E when \in Times : CallAt(when, handles)
    /\ UNCHANGED <<ready, name, tid, num_loops, pc, mode, timeout, drainNow,
                   held, sift, todo, result, now, wake, thr, sigh,
                   fut, futCb, nres, lastOut, faults, appends, lastDeq, batchEnd,
                   looping, addRet, remRet>>

\* The loop still holds handle h: in the ready queue, in the heap, in an
\* interrupted heappop, or in the signal table.
Pending(h) == InSeq(ready, h) \/ InSeq(scheduled, h) \/ held = h \/ sigh = h

\* Handle.cancel(), from any thread at any time.  Cancelling a handle the
\* loop no longer holds changes nothing the loop reads, so only pending
\* handles are cancelled here.
Cancel ==
    /\ \E h \in DOMAIN handles :
          /\ Pending(h)
          /\ ~handles[h].cancelled
          /\ handles' = [handles EXCEPT ![h].cancelled = TRUE]
    /\ UNCHANGED <<ready, scheduled, name, tid, num_loops, pc, mode, timeout,
                   drainNow, held, sift, todo, result, now, wake, thr, sigh,
                   fut, futCb, nres, lastOut, faults, appends, lastDeq, batchEnd,
                   looping, addRet, remRet>>

\* The clock.  Time passes while the loop thread is blocked in io.poll or is
\* outside run*; the loop's own steps and the callbacks take no time.  A
\* poll that is blocking uses up its timeout as time passes.
Tick ==
    /\ pc \in {"idle", "poll"}
    /\ now < MaxTime
    /\ now' = now + 1
    /\ timeout' = IF pc = "poll" /\ timeout > 0 THEN timeout - 1 ELSE timeout
    /\ UNCHANGED <<handles, ready, scheduled, name, tid, num_loops, pc, mode,
                   drainNow, held, sift, todo, result, wake, thr, sigh,
                   fut, futCb, nres, lastOut, faults, appends, lastDeq, batchEnd,
                   looping, addRet, remRet>>

\* ------------------------------------------------------------ run drivers
\* _before_run(): setid() and name
BeforeRun(m) ==
    /\ name' = "MainThread"
    /\ tid' = 1
    /\ pc' = "head"
    /\ mode' = m
    /\ result' = "none"
    /\ nres' = "none"
    /\ lastOut' = "none"
    /\ batchEnd' = 0

\* The two entry points that take no future: run() and run_forever().
RunModes == {"run", "forever"}

\* run() / run_forever() called by the application (modes says which of the
\* two): `if not self.running` holds, as no run* call is active on this
\* thread.
Run(modes) ==
    /\ pc = "idle"
    /\ ~running
    /\ \E m \in RunModes :
          /\ m \in modes
          /\ BeforeRun(m)
    /\ UNCHANGED <<handles, ready, scheduled, num_loops, timeout, drainNow,
                   held, sift, todo, now, wake, thr, sigh, fut,
                   futCb, faults, appends, lastDeq,
                   looping, addRet, remRet>>

\* run_until_complete(future) up to the entry of its loop:
\* add_done_callback(self.stop), which a future that is already done calls
\* at once, then run_forever().
RunUntilComplete ==
    /\ pc = "idle"
    /\ ~running
    /\ futCb' = TRUE
    /\ IF fut = "done"
       THEN CallSoon("stop", handles, ready) /\ wake' = WriteToSelf
       ELSE UNCHANGED <<handles, ready, wake, appends>>
    /\ BeforeRun("until")
    /\ UNCHANGED <<scheduled, num_loops, timeout, drainNow, held, sift, todo,
                   now, thr, sigh, fut, faults, lastDeq,
                   looping, addRet, remRet>>

\* (mutant) run* without the finally clause: _after_run() is not called
AfterRunSkipped(how, futNow) ==
    /\ name' = name
    /\ tid' = tid
    /\ pc' = "idle"
    /\ mode' = "none"
    /\ timeout' = 0
    /\ drainNow' = 0
    /\ held' = 0
    /\ sift' = NoSift
    /\ todo' = 0
    /\ result' = IF how = "raised" THEN "raised"
                 ELSE IF mode # "until" THEN "returned"
                 ELSE IF futNow = "done" THEN "result" ELSE "RuntimeError"

\* Leaving the loop of run*: the finally clause runs _after_run(), then the
\* call returns (how = "returned") or the error goes on to the caller
\* (how = "raised").  For run_until_complete the code after run_forever()
\* runs only when run_forever() returned: the future's state decides between
\* its result and RuntimeError.
AfterRun(how, futNow) ==
    /\ name' = "None"
    /\ tid' = 0
    /\ pc' = "idle"
    /\ mode' = "none"
    /\ timeout' = 0
    /\ drainNow' = 0
    /\ held' = 0
    /\ sift' = NoSift
    /\ todo' = 0
    /\ result' = IF how = "raised" THEN "raised"
                 ELSE IF mode # "until" THEN "returned"
                 ELSE IF futNow = "done" THEN "result" ELSE "RuntimeError"

\* (mutant) run_until_complete leaving its done-callback on the future
KeepDoneCallback(how, cb) == cb

\* future.remove_done_callback(self.stop), which run_until_complete reaches
\* only when run_forever() returned.
RemoveDoneCallback(how, cb) ==
    IF how = "returned" /\ mode = "until" THEN FALSE ELSE cb

\* ------------------------------------------------------------ _run_once
\* The timeout _run_once computes for the poll.
ComputeTimeout ==
    IF ready # <<>> THEN 0
    ELSE IF scheduled # <<>>
         THEN LET d == handles[scheduled[1]].when - now
                  m == IF d > 0 THEN d ELSE 0
              IN  IF m < PollTimeout THEN m ELSE PollTimeout
         ELSE PollTimeout

\* (mutant) _run_once without `self._num_loops += 1`
LoopHeadUncounted ==
    /\ pc = "head"
    /\ IF mode = "run" /\ ~active
       THEN AfterRun("returned", fut)
       ELSE /\ timeout' = ComputeTimeout
            /\ pc' = "poll"
            /\ UNCHANGED <<name, tid, mode, drainNow, held, sift, todo, result>>
    /\ nres' = "none"
    /\ lastOut' = "none"
    /\ UNCHANGED <<handles, ready, scheduled, now, wake, thr, sigh, num_loops,
                   fut, futCb, faults, appends, lastDeq, batchEnd,
                   looping, addRet, remRet>>

\* The head of the loop in run*: run() tests `active`, run_forever() loops
\* unconditionally; then _run_once counts the iteration and computes the
\* poll timeout.
LoopHead ==
    /\ pc = "head"
    /\ IF mode = "run" /\ ~active
       THEN /\ AfterRun("returned", fut)
            /\ UNCHANGED <<num_loops>>
       ELSE /\ num_loops' = num_loops + 1
            /\ timeout' = ComputeTimeout
            /\ pc' = "poll"
            /\ UNCHANGED <<name, tid, mode, drainNow, held, sift, todo, result>>
    /\ nres' = "none"
    /\ lastOut' = "none"
    /\ UNCHANGED <<handles, ready, scheduled, now, wake, thr, sigh,
                   fut, futCb, faults, appends, lastDeq, batchEnd,
                   looping, addRet, remRet>>

\* io.poll(timeout) returns: the timeout has run out or the waker has been
\* written to.  The waker's reader drains the pipe.  `now` is read for the
\* drain.
PollReturn ==
    /\ pc = "poll"
    /\ timeout = 0 \/ wake
    /\ wake' = FALSE
    /\ timeout' = 0
    /\ drainNow' = now
    /\ pc' = "drain"
    /\ UNCHANGED <<handles, ready, scheduled, name, tid, num_loops, mode,
                   held, sift, todo, result, now, thr, sigh, fut,
                   futCb, nres, lastOut, faults, appends, lastDeq, batchEnd,
                   looping, addRet, remRet>>

\* (mutant) KeyboardInterrupt in io.poll going on to the caller of run*
PollKeyboardInterruptRaised ==
    /\ pc = "poll"
    /\ faults < MaxFaults
    /\ faults' = faults + 1
    /\ AfterRun("raised", fut)
    /\ futCb' = RemoveDoneCallback("raised", futCb)
    /\ UNCHANGED <<handles, ready, scheduled, num_loops, now, wake, thr, sigh,
                   fut, nres, lastOut, appends, lastDeq, batchEnd,
                   looping, addRet, remRet>>

\* io.poll raises KeyboardInterrupt: _poll raises StopEventLoop, which run*
\* takes as the end of the loop.
PollKeyboardInterrupt ==
    /\ pc = "poll"
    /\ faults < MaxFaults
    /\ faults' = faults + 1
    /\ AfterRun("returned", fut)
    /\ futCb' = RemoveDoneCallback("returned", futCb)
    /\ UNCHANGED <<handles, ready, scheduled, num_loops, now, wake, thr, sigh,
                   fut, nres, lastOut, appends, lastDeq, batchEnd,
                   looping, addRet, remRet>>

\* io.poll raises an Exception e: re-raised when raise_socket_error(e) and
\* the loop is running, swallowed otherwise (the iteration goes on with no
\* events).
PollError ==
    /\ pc = "poll"
    /\ faults < MaxFaults
    /\ faults' = faults + 1
    /\ \E raise_socket_error \in BOOLEAN :
          IF raise_socket_error /\ running
          THEN AfterRun("raised", fut)
          ELSE /\ timeout' = 0
               /\ drainNow' = now
               /\ pc' = "drain"
               /\ UNCHANGED <<name, tid, mode, held, sift, todo, result>>
    /\ UNCHANGED <<handles, ready, scheduled, num_loops, now, wake, thr, sigh,
                   fut, futCb, nres, lastOut, appends, lastDeq, batchEnd,
                   looping, addRet, remRet>>

\* The batch: todo = len(self._ready) once the timers are drained.
StartBatch(rdy) ==
    /\ todo' = Len(rdy)
    /\ pc' = IF Len(rdy) = 0 THEN "head" ELSE "exec"
    /\ drainNow' = 0
    /\ batchEnd' = appends

\* (mutant) due timers put at the head of the ready queue
PromoteFront(h) ==
    /\ handles' = [handles EXCEPT ![h].seq = appends + 1]
    /\ ready' = <<h>> \o ready
    /\ appends' = appends + 1

\* self._ready.append(timer) for a timer popped from the heap.
Promote(h) ==
    /\ handles' = [handles EXCEPT ![h].seq = appends + 1]
    /\ ready' = ReadyAppend(ready, h)
    /\ appends' = appends + 1

\* One turn of `while self._scheduled and self._scheduled[0]._when <= now`:
\* pop the root and append it to ready, or leave the loop and start the
\* batch.  A pop that has to compare can be interrupted (pc = "sift").
Drain ==
    /\ pc = "drain"
    /\ IF scheduled # <<>> /\ handles[scheduled[1]].when <= drainNow
       THEN IF HeapPopCompares(scheduled)
            THEN /\ held' = scheduled[1]
                 /\ scheduled' = HeapPopMid(scheduled)
                 /\ sift' = HeapPopLocals(handles, HeapPopMid(scheduled))
                 /\ pc' = "sift"
                 /\ UNCHANGED <<handles, ready, todo, drainNow, appends,
                                batchEnd>>
            ELSE /\ scheduled' = HeapPop(handles, scheduled)[2]
                 /\ Promote(HeapPop(handles, scheduled)[1])
                 /\ UNCHANGED <<held, sift, pc, todo, drainNow, batchEnd>>
       ELSE /\ StartBatch(ready)
            /\ UNCHANGED <<handles, scheduled, ready, held, sift, appends>>
    /\ UNCHANGED <<name, tid, num_loops, mode, timeout, result, now, wake,
                   thr, sigh, fut, futCb, nres, lastOut, faults, lastDeq,
                   looping, addRet, remRet>>

\* The interrupted heappop resumes.  If no push came in between, the sift
\* completes and the item is appended to ready.  If the list grew, heappop
\* races with the push, and what happens depends on the build's heapq:
\*   "C"       _heapq checks the list's size after the comparison and raises
\*             RuntimeError("list changed size during iteration"): the
\*             returnitem is dropped, the list stays as it is, and the error
\*             leaves _run_once and run*;
\*   "Python"  the pure-Python heapq goes on sifting with its stale locals.
Heapqs == {"C", "Python"}

DrainSift ==
    /\ pc = "sift"
    /\ IF Len(scheduled) # sift.endpos
       THEN \E heapq \in Heapqs :
               IF heapq = "C"
               THEN /\ AfterRun("raised", fut)
                    /\ UNCHANGED <<handles, scheduled, ready, appends>>
               ELSE /\ scheduled' = HeapPopRestStale(handles, scheduled, sift)
                    /\ Promote(held)
                    /\ held' = 0
                    /\ sift' = NoSift
                    /\ pc' = "drain"
                    /\ UNCHANGED <<name, tid, mode, timeout, drainNow, todo,
                                   result>>
       ELSE /\ scheduled' = HeapPopRest(handles, scheduled)
            /\ Promote(held)
            /\ held' = 0
            /\ sift' = NoSift
            /\ pc' = "drain"
            /\ UNCHANGED <<name, tid, mode, timeout, drainNow, todo, result>>
    /\ UNCHANGED <<num_loops, now, wake, thr, sigh, fut,
                   futCb, nres, lastOut, faults, lastDeq, batchEnd,
                   looping, addRet, remRet>>

\* ------------------------------------------------------------ the batch
\* (mutant) `while self._ready` in place of `for i in range(todo)`
NextWhileReady ==
    /\ todo' = Len(ready')
    /\ pc' = IF Len(ready') = 0 THEN "head" ELSE "exec"

\* `for i in range(todo)`: on to the next handle, or back to the loop head.
NextInBatch ==
    /\ todo' = todo - 1
    /\ pc' = IF todo - 1 = 0 THEN "head" ELSE "exec"

\* handle = callbacks.popleft()
PopLeft ==
    /\ ready' = Tail(ready)
    /\ lastDeq' = handles[Head(ready)].seq

\* What a user callback may do to the loop before it returns or raises.
CbActs == {"none", "soon", "at", "stop", "done", "run", "until"}

\* How a user callback may end.
Outcomes == {"return", "Exception", "socket.error", "BaseException"}

\* (mutant) _run_once without its except clauses
CaughtNothing(out) == FALSE

\* The except clauses of _run_once: socket.error and Exception are caught
\* (and logged); a BaseException that is no Exception is not.
Caught(out) == out \in {"socket.error", "Exception"}

\* The effect of the callback's own calls; hs and rdy are the handles and
\* the ready queue after the popleft and the call.
CbEffect(act, hs, rdy) ==
    \/ /\ act = "none"
       /\ handles' = hs
       /\ ready' = rdy
       /\ nres' = "none"
       /\ UNCHANGED <<scheduled, wake, fut, futCb, appends>>
    \/ /\ act = "soon"
       /\ CallSoon("cb", hs, rdy)
       /\ nres' = "none"
       /\ UNCHANGED <<scheduled, wake, fut, futCb>>
    \/ /\ act = "at"
       /\ \E when \in Times : CallAt(when, hs)
       /\ ready' = rdy
       /\ nres' = "none"
       /\ UNCHANGED <<wake, fut, futCb, appends>>
    \/ /\ act = "stop"
       /\ CallSoon("stop", hs, rdy)
       /\ wake' = WriteToSelf
       /\ nres' = "none"
       /\ UNCHANGED <<scheduled, fut, futCb>>
    \/ \* the callback completes the future, whose done-callbacks run
       /\ act = "done"
       /\ fut = "pending"
       /\ fut' = "done"
       /\ IF futCb
          THEN CallSoon("stop", hs, rdy) /\ wake' = WriteToSelf
          ELSE handles' = hs /\ ready' = rdy /\ UNCHANGED <<wake, appends>>
       /\ nres' = "none"
       /\ UNCHANGED <<scheduled, futCb>>
    \/ \* run() or run_forever() while running: `if not self.running` fails
       /\ act = "run"
       /\ handles' = hs
       /\ ready' = rdy
       /\ nres' = IF running THEN "noop" ELSE "ran"
       /\ UNCHANGED <<scheduled, wake, fut, futCb, appends>>
    \/ \* run_until_complete(future) while running: run_forever() returns
       \* at once
       /\ act = "until"
       /\ IF fut = "done"
          THEN CallSoon("stop", hs, rdy) /\ wake' = WriteToSelf
          ELSE handles' = hs /\ ready' = rdy /\ UNCHANGED <<wake, appends>>
       /\ futCb' = FALSE
       /\ nres' = IF fut = "done" THEN "result" ELSE "RuntimeError"
       /\ UNCHANGED <<scheduled, fut>>

\* The dequeued handle is cancelled: nothing is called.
ExecCancelled ==
    /\ pc = "exec"
    /\ IsCancelled(handles, Head(ready))
    /\ PopLeft
    /\ handles' = Retired(handles, Head(ready))
    /\ NextInBatch
    /\ nres' = "none"
    /\ lastOut' = "none"
    /\ UNCHANGED <<scheduled, name, tid, num_loops, mode, timeout,
                   drainNow, held, sift, result, now, wake, thr, sigh,
                   fut, futCb, faults, appends, batchEnd,
                   looping, addRet, remRet>>

\* (mutant) _raise_stop_event_loop raising nothing
ExecStopGoesOn ==
    /\ pc = "exec"
    /\ ~IsCancelled(handles, Head(ready))
    /\ handles[Head(ready)].kind = "stop"
    /\ PopLeft
    /\ handles' = Called(Retired(handles, Head(ready)), Head(ready))
    /\ NextInBatch
    /\ nres' = "none"
    /\ lastOut' = "none"
    /\ UNCHANGED <<scheduled, name, tid, mode, timeout, drainNow, held, sift,
                   result, futCb, num_loops, now, wake, thr, sigh, fut, faults,
                   appends, batchEnd, looping, addRet, remRet>>

\* The handle of _raise_stop_event_loop: StopEventLoop if is_running(),
\* which ends the loop of run*.
ExecStop ==
    /\ pc = "exec"
    /\ ~IsCancelled(handles, Head(ready))
    /\ handles[Head(ready)].kind = "stop"
    /\ PopLeft
    /\ handles' = Called(Retired(handles, Head(ready)), Head(ready))
    /\ IF running
       THEN /\ AfterRun("returned", fut)
            /\ futCb' = RemoveDoneCallback("returned", futCb)
       ELSE /\ NextInBatch
            /\ UNCHANGED <<name, tid, mode, timeout, drainNow, held, sift,
                           result, futCb>>
    /\ nres' = "none"
    /\ lastOut' = "none"
    /\ UNCHANGED <<scheduled, num_loops, now, wake, thr, sigh, fut, faults,
                   appends, batchEnd,
                   looping, addRet, remRet>>

\* A user callback is called; acts and outs say what it may do and how it
\* may end.  An Exception (socket.error included) it raises is caught and
\* logged, and the batch goes on; a BaseException goes through _run_once
\* and run*.
ExecCallback(acts, outs) ==
    /\ pc = "exec"
    /\ ~IsCancelled(handles, Head(ready))
    /\ handles[Head(ready)].kind \notin {"stop", "loop"}
    /\ lastDeq' = handles[Head(ready)].seq
    /\ \E act \in CbActs, out \in Outcomes :
          /\ act \in acts
          /\ out \in outs
          /\ CbEffect(act, Called(Retired(handles, Head(ready)), Head(ready)),
                      Tail(ready))
          /\ lastOut' = out
          /\ IF out = "return" \/ Caught(out)
             THEN /\ NextInBatch
                  /\ UNCHANGED <<name, tid, mode, timeout, drainNow, held,
                                 sift, result>>
             ELSE AfterRun("raised", fut')
    /\ UNCHANGED <<num_loops, now, thr, sigh, faults, batchEnd,
                   looping, addRet, remRet>>

\* ------------------------------------------------------------ signals
\* add_signal_handler(SIGUSR1, callback), signal.signal succeeding: a new
\* Handle in the signal table.  The function has no return statement: the
\* caller gets None (addRet is <<h>> for a Handle h returned, <<>> for None).
\* remRet is "none" again: the last call on the table is no removal.
AddSignalHandler ==
    /\ pc = "idle"
    /\ CanCreate
    /\ handles' = Append(handles, Handle("sig", 0, 0))
    /\ sigh' = NewId
    /\ addRet' = <<>>
    /\ remRet' = "none"
    /\ UNCHANGED <<ready, scheduled, name, tid, num_loops, pc, mode, timeout,
                   drainNow, held, sift, todo, result, now, wake, thr,
                   fut, futCb, nres, lastOut, faults, appends, lastDeq, batchEnd,
                   looping>>

\* How signal.signal(sig, handler) may fail: OSError from the system, or
\* ValueError when the calling thread is not the main thread.
SignalErrors == {"OSError", "ValueError"}

\* add_signal_handler(SIGUSR1, callback), signal.signal raising.  The Handle
\* is in the table by then; the except clause for OSError takes it out
\* again, a ValueError goes to the caller as it is and the Handle stays.
AddSignalHandlerError ==
    /\ pc = "idle"
    /\ CanCreate
    /\ handles' = Append(handles, Handle("sig", 0, 0))
    /\ \E e \in SignalErrors : sigh' = IF e = "OSError" THEN 0 ELSE NewId
    /\ addRet' = <<>>
    /\ remRet' = "none"
    /\ UNCHANGED <<ready, scheduled, name, tid, num_loops, pc, mode, timeout,
                   drainNow, held, sift, todo, result, now, wake, thr,
                   fut, futCb, nres, lastOut, faults, appends, lastDeq, batchEnd,
                   looping>>

\* (mutant) remove_signal_handler without its `except KeyError: return False`
InTableAlways(table) == TRUE

\* `del self._signal_handlers[sig]` finds an entry (table is the entry of
\* sig, 0 when there is none).
InTable(table) == table # 0

\* remove_signal_handler(SIGUSR1) called by the application: False when the
\* table has no entry; else the entry is deleted and the default handler is
\* put back with signal.signal, True if that succeeds, and if it raises the
\* error goes to the caller ("raised"), the entry deleted all the same.
RemoveSignalHandler ==
    /\ pc = "idle"
    /\ sigh' = 0
    /\ IF InTable(sigh)
       THEN \E e \in SignalErrors \cup {"ok"} :
               remRet' = IF e = "ok" THEN "True" ELSE "raised"
       ELSE remRet' = "False"
    /\ UNCHANGED <<handles, ready, scheduled, name, tid, num_loops, pc, mode,
                   timeout, drainNow, held, sift, todo, result, now, wake,
                   thr, fut, futCb, nres, lastOut, faults, appends, lastDeq,
                   batchEnd, looping, addRet>>

\* _handle_signal(sig, frame): the interpreter runs it on the main thread
\* between two bytecodes, whatever the thread is doing.  No handle: return;
\* a cancelled handle: remove_signal_handler(sig); else the callback is
\* called.
HandleSignal ==
    /\ sigh # 0
    /\ IF IsCancelled(handles, sigh)
       THEN sigh' = 0 /\ UNCHANGED handles
       ELSE handles' = Called(handles, sigh) /\ UNCHANGED sigh
    /\ UNCHANGED <<ready, scheduled, name, tid, num_loops, pc, mode,
                   timeout, drainNow, held, sift, todo, result, now, wake,
                   thr, fut, futCb, nres, lastOut, faults, appends, lastDeq, batchEnd,
                   looping, addRet, remRet>>

\* ------------------------------------------------------------ readers
\* add_reader(fd, callback): a Handle registered with the poller for fd.
AddReader ==
    /\ pc = "idle"
    /\ CanCreate
    /\ handles' = Append(handles, Handle("io", 0, 0))
    /\ UNCHANGED <<ready, scheduled, name, tid, num_loops, pc, mode, timeout,
                   drainNow, held, sift, todo, result, now, wake, thr, sigh,
                   fut, futCb, nres, lastOut, faults, appends, lastDeq,
                   batchEnd, looping, addRet, remRet>>

\* io.handle_events(loop, fd, events) for the Handle h registered for fd:
\* the handle is pushed on the loop's ready queue, not called.
HandleEvents(h) ==
    /\ handles' = [handles EXCEPT ![h].seq = appends + 1]
    /\ ready' = ReadyAppend(ready, h)
    /\ appends' = appends + 1

\* io.poll(timeout) returns a readiness event for a registered reader (one
\* that is not on the queue already), and _poll hands it to
\* io.handle_events.  A byte in the waker's pipe is read with it.
PollEvents ==
    /\ pc = "poll"
    /\ \E h \in DOMAIN handles :
          /\ handles[h].kind = "io"
          /\ ~InSeq(ready, h)
          /\ HandleEvents(h)
    /\ wake' = FALSE
    /\ timeout' = 0
    /\ drainNow' = now
    /\ pc' = "drain"
    /\ UNCHANGED <<scheduled, name, tid, num_loops, mode, held, sift, todo,
                   result, now, thr, sigh, fut, futCb, nres, lastOut, faults,
                   lastDeq, batchEnd, looping, addRet, remRet>>

\* ------------------------------------------------------------ looping calls
\* The intervals call_repeatedly is given, in ticks.
Intervals == 1..MaxTime

\* LoopingCall.__init__ with interval > 0 (call_repeatedly): the handler is
\* the TimerHandle of call_later(interval, self).
CallRepeatedly ==
    /\ pc = "idle"
    /\ looping.handler = 0
    /\ CanCreate
    /\ \E interval \in Intervals :
          /\ now + interval \in Times
          /\ handles' = Append(handles, Handle("loop", now + interval, 0))
          /\ scheduled' = HeapPush(handles', scheduled, NewId)
          /\ looping' = [NoLooping EXCEPT !.handler = NewId,
                                          !.interval = interval]
    /\ UNCHANGED <<ready, name, tid, num_loops, pc, mode, timeout, drainNow,
                   held, sift, todo, result, now, wake, thr, sigh,
                   fut, futCb, nres, lastOut, faults, appends, lastDeq,
                   batchEnd, addRet, remRet>>

\* LoopingCall.__init__ with no interval (call_every): the handler is the
\* Handle of call_soon(self).
CallEvery ==
    /\ pc = "idle"
    /\ looping.handler = 0
    /\ CallSoon("loop", handles, ready)
    /\ looping' = [NoLooping EXCEPT !.handler = NewId]
    /\ UNCHANGED <<scheduled, name, tid, num_loops, pc, mode, timeout,
                   drainNow, held, sift, todo, result, now, wake, thr, sigh,
                   fut, futCb, nres, lastOut, faults, lastDeq, batchEnd,
                   addRet, remRet>>

\* LoopingCall.cancel(), from any thread at any time: it sets the flag of
\* the LoopingCall and leaves its handler alone.
LoopingCancel ==
    /\ looping.handler # 0
    /\ ~looping.cancelled
    /\ looping' = [looping EXCEPT !.cancelled = TRUE]
    /\ UNCHANGED <<handles, ready, scheduled, name, tid, num_loops, pc, mode,
                   timeout, drainNow, held, sift, todo, result, now, wake,
                   thr, sigh, fut, futCb, nres, lastOut, faults, appends,
                   lastDeq, batchEnd, addRet, remRet>>

\* LoopingCall.handler.cancel() while the LoopingCall waits for the result
\* of its callback: the loop does not hold the handler then, the
\* LoopingCall does, and _continue will hand it back to the loop.
HandlerCancel ==
    /\ looping.handler # 0
    /\ looping.waiting
    /\ ~handles[looping.handler].cancelled
    /\ handles' = [handles EXCEPT ![looping.handler].cancelled = TRUE]
    /\ UNCHANGED <<ready, scheduled, name, tid, num_loops, pc, mode, timeout,
                   drainNow, held, sift, todo, result, now, wake, thr, sigh,
                   fut, futCb, nres, lastOut, faults, appends, lastDeq,
                   batchEnd, looping, addRet, remRet>>

\* (mutant) _continue never putting the handler back
ContinueNever(lc) == FALSE

\* `if not self._cancelled` in LoopingCall._continue
ContinueAllowed(lc) == ~lc.cancelled

\* LoopingCall._continue(result), lc being the LoopingCall as it is now, hs
\* and rdy the handles and the ready queue it finds.  Unless cancelled, the
\* handler goes back on the heap, due one interval from now and with its
\* own flag cleared, or (no interval) straight to the tail of _ready.
Continue(lc, hs, rdy) ==
    IF ~ContinueAllowed(lc)
    THEN /\ handles' = hs
         /\ ready' = rdy
         /\ UNCHANGED <<scheduled, appends>>
    ELSE IF lc.interval > 0
    THEN /\ handles' = [hs EXCEPT ![lc.handler].cancelled = FALSE,
                                  ![lc.handler].when = now + lc.interval]
         /\ scheduled' = HeapPush(handles', scheduled, lc.handler)
         /\ ready' = rdy
         /\ UNCHANGED appends
    ELSE /\ handles' = [hs EXCEPT ![lc.handler].seq = appends + 1]
         /\ ready' = ReadyAppend(rdy, lc.handler)
         /\ appends' = appends + 1
         /\ UNCHANGED scheduled

\* How the callback of a LoopingCall may end: it returns a value ("return"),
\* raises an Exception, returns a result that has failed ("failure"), or
\* returns a result that is not in yet ("pending").
LoopingOutcomes == {"return", "Exception", "failure", "pending"}

\* The outcomes that are failures of the callback.
Failures == {"Exception", "failure"}

\* LoopingCall.__call__ for a callback that raised or whose result failed:
\* the except clause, or the errback given to add_callback, calls
\* self.cancel().
FailureCancels(lc, out) ==
    IF out \in Failures
    THEN [lc EXCEPT !.cancelled = TRUE]
    ELSE lc

\* The LoopingCall lc after one more call of its callback, in iteration n.
LoopingCalled(lc, n) ==
    [lc EXCEPT !.iter = n,
               !.late = IF lc.cancelled /\ @ < 2 THEN @ + 1 ELSE @]

\* _run_once dequeues the handler of the LoopingCall and calls it:
\* LoopingCall.__call__ calls the callback, whatever the LoopingCall's flag
\* says, and then goes by the outcome (outs says which may occur).  Nothing
\* is raised to _run_once.
ExecLooping(outs) ==
    /\ pc = "exec"
    /\ ~IsCancelled(handles, Head(ready))
    /\ handles[Head(ready)].kind = "loop"
    /\ lastDeq' = handles[Head(ready)].seq
    /\ \E out \in LoopingOutcomes :
          /\ out \in outs
          /\ lastOut' = out
          /\ looping' = [FailureCancels(LoopingCalled(looping, num_loops), out)
                            EXCEPT !.waiting = (out = "pending"),
                                   !.failed = @ \/ out \in Failures]
          /\ IF out = "return"
             THEN Continue(looping,
                           Called(Retired(handles, Head(ready)), Head(ready)),
                           Tail(ready))
             ELSE /\ handles' = Called(Retired(handles, Head(ready)),
                                       Head(ready))
                  /\ ready' = Tail(ready)
                  /\ UNCHANGED <<scheduled, appends>>
    /\ NextInBatch
    /\ nres' = "none"
    /\ UNCHANGED <<name, tid, num_loops, mode, timeout, drainNow, held, sift,
                   result, now, wake, thr, sigh, fut, futCb, faults, batchEnd,
                   addRet, remRet>>

\* The asynchronous result of the callback comes in, on the loop thread
\* (in a callback, or in the application while no run* call is active):
\* _continue if it succeeded, cancel if it failed.
LoopingResult ==
    /\ pc \in {"idle", "exec"}
    /\ looping.waiting
    /\ \E out \in {"return", "failure"} :
          /\ looping' = [FailureCancels(looping, out)
                            EXCEPT !.waiting = FALSE,
                                   !.failed = @ \/ out \in Failures]
          /\ IF out = "return"
             THEN Continue(looping, handles, ready)
             ELSE UNCHANGED <<handles, ready, scheduled, appends>>
    /\ UNCHANGED <<name, tid, num_loops, pc, mode, timeout, drainNow, held,
                   sift, todo, result, now, wake, thr, sigh, fut, futCb, nres,
                   lastOut, faults, lastDeq, batchEnd, addRet, remRet>>

\* ------------------------------------------------------------ specification
Next ==
    \/ AppCallSoon
    \/ AppStop
    \/ AppCallAt
    \/ AppCallLater
    \/ ThreadCallSoon({"cb", "stop"})
    \/ ThreadWriteToSelf
    \/ ThreadCallAt
    \/ Cancel
    \/ Tick
    \/ Run({"run", "forever"})
    \/ RunUntilComplete
    \/ LoopHead
    \/ PollReturn
    \/ PollKeyboardInterrupt
    \/ PollError
    \/ Drain
    \/ DrainSift
    \/ ExecCancelled
    \/ ExecStop
    \/ ExecCallback(CbActs, Outcomes)
    \/ AddSignalHandler
    \/ AddSignalHandlerError
    \/ RemoveSignalHandler
    \/ HandleSignal
    \/ CallRepeatedly
    \/ CallEvery
    \/ LoopingCancel
    \/ HandlerCancel
    \/ ExecLooping(LoopingOutcomes)
    \/ LoopingResult
    \/ AddReader
    \/ PollEvents

Spec == Init /\ [][Next]_vars

\* ------------------------------------------------------------ sub-specifications
\* Next restricted to the operations a group of properties is about: the
\* same actions, fewer of them, so that the reachable states can be
\* enumerated.

\* The ready queue: call_soon from the application, from the other thread
\* and from callbacks, which may also call stop() and may raise.
NextReady ==
    \/ AppCallSoon
    \/ ThreadCallSoon({"cb"})
    \/ ThreadWriteToSelf
    \/ Cancel
    \/ Run({"run", "forever"})
    \/ LoopHead
    \/ PollReturn
    \/ Drain
    \/ ExecCancelled
    \/ ExecStop
    \/ ExecCallback({"none", "soon", "stop"}, Outcomes)

SpecReady == Init /\ [][NextReady]_vars

\* The timer heap under run(): call_at and call_later from the application,
\* call_at from callbacks and from the other thread.
NextTimers ==
    \/ AppCallAt
    \/ AppCallLater
    \/ ThreadCallAt
    \/ Cancel
    \/ Tick
    \/ Run({"run"})
    \/ LoopHead
    \/ PollReturn
    \/ Drain
    \/ DrainSift
    \/ ExecCancelled
    \/ ExecCallback({"none", "at"}, {"return"})

SpecTimers == Init /\ [][NextTimers]_vars

\* Cancellation: handles on the ready queue, in the heap and in the signal
\* table, cancelled at any time.  No time passes: a timer is due at once
\* or not at all.
NextCancel ==
    \/ AppCallSoon
    \/ AppCallAt
    \/ AddSignalHandler
    \/ HandleSignal
    \/ Cancel
    \/ Run({"run"})
    \/ LoopHead
    \/ PollReturn
    \/ Drain
    \/ DrainSift
    \/ ExecCancelled
    \/ ExecCallback({"none"}, {"return"})

SpecCancel == Init /\ [][NextCancel]_vars

\* run() on its own thread, with callbacks that schedule nothing; the loop
\* thread keeps taking its steps and the clock keeps running.
NextRun ==
    \/ AppCallSoon
    \/ AppStop
    \/ AppCallAt
    \/ Tick
    \/ Run({"run"})
    \/ LoopHead
    \/ PollReturn
    \/ PollKeyboardInterrupt
    \/ Drain
    \/ DrainSift
    \/ ExecStop
    \/ ExecCallback({"none"}, {"return", "Exception"})

LoopSteps ==
    \/ LoopHead
    \/ PollReturn
    \/ Drain
    \/ DrainSift
    \/ ExecCancelled
    \/ ExecStop
    \/ ExecCallback({"none"}, {"return", "Exception"})

SpecRun ==
    Init /\ [][NextRun]_vars /\ WF_vars(LoopSteps) /\ WF_vars(Tick)

\* run_forever() and run_until_complete(future), every way out of them, and
\* run* calls made by callbacks.
NextUntil ==
    \/ AppCallSoon
    \/ AppStop
    \/ ThreadCallSoon({"stop"})
    \/ ThreadWriteToSelf
    \/ Run({"run", "forever"})
    \/ RunUntilComplete
    \/ LoopHead
    \/ PollReturn
    \/ PollKeyboardInterrupt
    \/ PollError
    \/ Drain
    \/ ExecStop
    \/ ExecCallback({"none", "done", "run", "until"}, {"return", "BaseException"})

SpecUntil == Init /\ [][NextUntil]_vars

\* run_forever() with the other thread submitting callbacks and stop(); no
\* time passes, so only the waker ends a poll that blocks.
NextThread ==
    \/ ThreadCallSoon({"cb", "stop"})
    \/ ThreadWriteToSelf
    \/ Cancel
    \/ Run({"forever"})
    \/ LoopHead
    \/ PollReturn
    \/ Drain
    \/ ExecCancelled
    \/ ExecStop
    \/ ExecCallback({"none"}, {"return", "Exception"})

SpecThread ==
    /\ Init /\ [][NextThread]_vars
    /\ WF_vars(LoopSteps)
    /\ WF_vars(ThreadWriteToSelf)

\* Looping calls: call_repeatedly and call_every under run(), with
\* LoopingCall.cancel() and Handle.cancel() at any time, callbacks of every
\* outcome, and other callbacks in the batch.  The iterations are counted up
\* to MaxLoops.
NextLooping ==
    \/ CallRepeatedly
    \/ CallEvery
    \/ LoopingCancel
    \/ AppCallSoon
    \/ Cancel
    \/ Tick
    \/ Run({"run"})
    \/ (num_loops < MaxLoops /\ LoopHead)
    \/ PollReturn
    \/ Drain
    \/ ExecCancelled
    \/ ExecCallback({"none"}, {"return"})
    \/ ExecLooping(LoopingOutcomes)
    \/ LoopingResult

SpecLooping == Init /\ [][NextLooping]_vars

\* A call_repeatedly among other timers, with call_at from the
\* application and from the other thread, which may come in while the loop
\* pops the heap.
NextLoopingTimers ==
    \/ CallRepeatedly
    \/ LoopingCancel
    \/ AppCallAt
    \/ ThreadCallAt
    \/ Tick
    \/ Run({"run"})
    \/ (num_loops < MaxLoops /\ LoopHead)
    \/ PollReturn
    \/ Drain
    \/ DrainSift
    \/ ExecCallback({"none"}, {"return"})
    \/ ExecLooping(LoopingOutcomes)
    \/ LoopingResult

SpecLoopingTimers == Init /\ [][NextLoopingTimers]_vars

\* The signal table: handlers added, removed and cancelled, and signals
\* arriving, while the application schedules callbacks and runs the loop.
NextSignal ==
    \/ AddSignalHandler
    \/ AddSignalHandlerError
    \/ RemoveSignalHandler
    \/ HandleSignal
    \/ Cancel
    \/ AppCallSoon
    \/ Run({"run"})
    \/ LoopHead
    \/ PollReturn
    \/ Drain
    \/ ExecCancelled
    \/ ExecCallback({"none"}, {"return"})

SpecSignal == Init /\ [][NextSignal]_vars

\* A call_every whose callback returns a value every time, among other
\* callbacks and timers, under run(), with LoopingCall.cancel() and
\* Handle.cancel() at any time.  No time passes: a timer is due at once or
\* not at all.  The iterations are counted up to MaxLoops.
NextEvery ==
    \/ CallEvery
    \/ LoopingCancel
    \/ AppCallSoon
    \/ AppCallAt
    \/ Cancel
    \/ Run({"run"})
    \/ (num_loops < MaxLoops /\ LoopHead)
    \/ PollReturn
    \/ Drain
    \/ DrainSift
    \/ ExecCancelled
    \/ ExecCallback({"none"}, {"return"})
    \/ ExecLooping({"return"})

SpecEvery == Init /\ [][NextEvery]_vars

\* Cancellation flags: callbacks of the application and a call_repeatedly
\* whose callback may return a pending result, with Handle.cancel() on
\* every handle, the LoopingCall's handler included, and
\* LoopingCall.cancel() at any time, under run().  The iterations are
\* counted up to MaxLoops.
NextSticky ==
    \/ AppCallSoon
    \/ CallRepeatedly
    \/ LoopingCancel
    \/ Cancel
    \/ HandlerCancel
    \/ Tick
    \/ Run({"run"})
    \/ (num_loops < MaxLoops /\ LoopHead)
    \/ PollReturn
    \/ Drain
    \/ ExecCancelled
    \/ ExecCallback({"none"}, {"return"})
    \/ ExecLooping(LoopingOutcomes)
    \/ LoopingResult

SpecSticky == Init /\ [][NextSticky]_vars

\* KeyboardInterrupt in the poll of run() and run_forever(), with callbacks
\* on the ready queue and timers in the heap, due or not.  The iterations
\* are counted up to MaxLoops.
NextInterrupt ==
    \/ AppCallSoon
    \/ AppCallAt
    \/ Tick
    \/ Run({"run", "forever"})
    \/ (num_loops < MaxLoops /\ LoopHead)
    \/ PollReturn
    \/ PollKeyboardInterrupt
    \/ Drain
    \/ DrainSift
    \/ ExecCallback({"none"}, {"return"})

SpecInterrupt == Init /\ [][NextInterrupt]_vars

\* The waker: the other thread submitting callbacks (the append, then the
\* write to the waker in a step of its own) at any point of run() and
\* run_forever() and between them, with timers that keep run() polling.  No
\* time passes, so only the waker ends a poll that blocks.
NextWake ==
    \/ AppCallSoon
    \/ AppCallAt
    \/ ThreadCallSoon({"cb"})
    \/ ThreadWriteToSelf
    \/ Run({"run", "forever"})
    \/ LoopHead
    \/ PollReturn
    \/ Drain
    \/ DrainSift
    \/ ExecCallback({"none"}, {"return"})

SpecWake ==
    /\ Init /\ [][NextWake]_vars
    /\ WF_vars(LoopSteps)
    /\ WF_vars(ThreadWriteToSelf)

\* The batch of an iteration: callbacks queued by the application, by
\* callbacks and by the other thread (kind "tcb"), readers made ready by the
\* poll, and timers, under run().  Readers can keep the loop turning for
\* ever: the iterations are counted up to MaxLoops.
NextBatch ==
    \/ AppCallSoon
    \/ AppCallAt
    \/ AddReader
    \/ ThreadCallSoon({"tcb"})
    \/ ThreadWriteToSelf
    \/ Tick
    \/ Run({"run"})
    \/ (num_loops < MaxLoops /\ LoopHead)
    \/ PollReturn
    \/ PollEvents
    \/ Drain
    \/ DrainSift
    \/ ExecCallback({"none", "soon"}, {"return"})

SpecBatch == Init /\ [][NextBatch]_vars

\* ------------------------------------------------------------ properties
\* A step of the loop that dequeues a handle (append numbers are never
\* reused, so every dequeue changes lastDeq).
Dequeues == lastDeq' # lastDeq

\* The handles created by the step.
Created == (DOMAIN handles') \ (DOMAIN handles)

\* C1: handles appended to the ready queue are invoked in the order of their
\* appends.  The queue always stands in append order, and every handle
\* still queued was appended after the handle dequeued last: so no handle
\* is dequeued before one appended earlier.
ReadyFifo ==
    \A i \in DOMAIN ready :
        /\ handles[ready[i]].seq > lastDeq
        /\ \A j \in DOMAIN ready :
              i < j => handles[ready[i]].seq < handles[ready[j]].seq

\* C1's case: handles have been dequeued while others, appended by the
\* application, the other thread or a callback, wait behind them.
ReadyFifoSeen ==
    /\ lastDeq >= 2
    /\ Len(ready) >= 2
    /\ pc = "exec"
    /\ \E h \in DOMAIN handles : handles[h].calls = 1

\* C5: when a callback run by _run_once raises an Exception (socket.error
\* included), nothing reaches the caller of run*, the loop is still running
\* in the same iteration, and the rest of the batch is still to be executed
\* in it: the handles left of the batch are the first todo' handles of the
\* ready queue and the loop goes on to the next of them.
CallbackExceptionCaught ==
    [][(Dequeues /\ lastOut' \in {"Exception", "socket.error"})
          => /\ running'
             /\ result' = "none"
             /\ num_loops' = num_loops
             /\ todo' = todo - 1
             /\ todo' <= Len(ready')
             /\ pc' = IF todo' > 0 THEN "exec" ELSE "head"]_vars

\* C5's case: a callback has raised and the loop is about to execute the
\* next handle of the same batch.
CallbackExceptionSeen ==
    /\ lastOut \in {"Exception", "socket.error"}
    /\ pc = "exec"
    /\ todo >= 1
    /\ running

\* C6: stop() called by a callback of iteration k does not end iteration k.
\* The _raise_stop_event_loop handle it enqueues lies behind the batch
\* (its append number is above batchEnd), the callback's return leaves the
\* loop running with the rest of the batch to do, and no handle from behind
\* the batch is ever dequeued in the iteration: the loop exits only when a
\* later iteration dequeues the stop handle.
StopAfterIteration ==
    [][Dequeues
          => /\ lastDeq' <= batchEnd
             /\ \A h \in Created :
                   handles'[h].kind = "stop"
                      => /\ handles'[h].seq > batchEnd
                         /\ InSeq(ready', h)
                         /\ (lastOut' = "return"
                               => /\ running'
                                  /\ num_loops' = num_loops
                                  /\ todo' = todo - 1
                                  /\ todo' <= Len(ready') - 1)]_vars

\* C6's case: a callback has called stop() and returned, and handles of its
\* batch are still to be executed before the stop handle.
StopAfterIterationSeen ==
    /\ pc = "exec"
    /\ lastOut = "return"
    /\ \E i \in DOMAIN ready :
          /\ handles[ready[i]].kind = "stop"
          /\ handles[ready[i]].seq > batchEnd
          /\ i > todo

\* The timers registered so far have pairwise distinct deadlines, and none
\* of them has been invoked or cancelled yet.
DistinctDeadlines ==
    \A g, h \in DOMAIN handles :
        /\ handles[h].kind = "timer" => handles[h].calls = 0 /\ ~handles[h].cancelled
        /\ (g # h /\ handles[g].kind = "timer" /\ handles[h].kind = "timer")
              => handles[g].when # handles[h].when

\* C2: timers are invoked in the order of their deadlines.  Stated for the
\* timers that wait in the heap together (a timer registered later, with a
\* deadline already behind the loop, cannot come first): whenever the loop
\* pops a timer from the heap, no timer in the heap has an earlier deadline.
\* Popped timers go to the ready queue, which is invoked in order.
TimersInDeadlineOrder ==
    [][(Len(scheduled') < Len(scheduled) /\ DistinctDeadlines)
          => \A i \in DOMAIN scheduled :
                handles[scheduled[i]].when >= handles[scheduled[1]].when]_vars

\* C3: a timer that is never cancelled is invoked exactly once: until its
\* one call it is held by the loop (in the heap, in the pop in progress or
\* on the ready queue), so it is neither lost nor called twice.
TimerExactlyOnce ==
    \A h \in DOMAIN handles :
        (handles[h].kind = "timer" /\ ~handles[h].cancelled)
           => /\ handles[h].calls <= 1
              /\ handles[h].calls = 1 \/ Pending(h)

\* C4: a handle cancelled before the loop or the signal handler reaches it
\* is never invoked.  No step calls the callback of a cancelled handle; the
\* step that dequeues a cancelled handle (a callback or a promoted timer)
\* drops it with no error, the loop going on with its batch; and a handle
\* leaves the signal table in _handle_signal only if it is cancelled, and
\* then without any call.
CancelledNeverInvoked ==
    [][/\ \A h \in DOMAIN handles :
             handles[h].cancelled => handles'[h].calls = handles[h].calls
       /\ (Dequeues /\ handles[Head(ready)].cancelled)
             => /\ running'
                /\ result' = result
                /\ lastOut' = "none"
                /\ num_loops' = num_loops
                /\ todo' = todo - 1
       /\ (sigh # 0 /\ sigh' = 0)
             => handles[sigh].cancelled /\ handles' = handles]_vars

\* C4's case: a cancelled callback and a cancelled timer have been dequeued
\* and a cancelled signal handle has met its signal, none of them called.
CancelledSeen ==
    /\ sigh = 0
    /\ \E a, b, c \in DOMAIN handles :
          /\ handles[a].kind = "cb" /\ handles[b].kind = "timer"
          /\ handles[c].kind = "sig"
          /\ \A h \in {a, b, c} :
                handles[h].cancelled /\ handles[h].calls = 0 /\ ~Pending(h)

\* The loop-head check of run() is made by this step.
RunChecks == mode = "run" /\ pc = "head" /\ pc' # "head"

\* run() returns to its caller in this step, and not because the handle of
\* a stop() was dequeued.
RunReturnsUnstopped ==
    /\ mode = "run"
    /\ pc' = "idle"
    /\ result' = "returned"
    /\ ~(pc = "exec" /\ handles[Head(ready)].kind = "stop")

\* run() has returned or raised once it was entered, given that callbacks
\* schedule nothing and every deadline is reached by the clock.
RunTerminates == (mode = "run") ~> (pc = "idle")

\* C7 as the spec has it: run() makes an iteration if and only if the loop
\* is active at the loop-head check, zero iterations on an inactive loop;
\* whenever run() returns without a stop() or a propagating error, ready
\* queue and heap were empty at its last check; and run() terminates.
RunWhileActiveUnlessStopped ==
    /\ [][/\ RunChecks
             => ((num_loops' = num_loops + 1)
                    <=> (ready # <<>> \/ scheduled # <<>>))
          /\ RunReturnsUnstopped
                => (pc = "head" /\ ready = <<>> /\ scheduled = <<>>)]_vars
    /\ RunTerminates

\* C7, amended: as above, but a KeyboardInterrupt raised by io.poll also
\* makes run() return normally, with whatever the queues hold: the queues
\* are empty at the last check whenever run() returns without a stop(),
\* without a KeyboardInterrupt in poll and without a propagating error.
RunWhileActive ==
    /\ [][/\ RunChecks
             => ((num_loops' = num_loops + 1)
                    <=> (ready # <<>> \/ scheduled # <<>>))
          /\ RunChecks /\ ready = <<>> /\ scheduled = <<>>
                => (pc' = "idle" /\ result' = "returned")
          /\ (RunReturnsUnstopped /\ pc # "poll")
                => (pc = "head" /\ ready = <<>> /\ scheduled = <<>>)]_vars
    /\ RunTerminates

\* C7's case: run() has iterated while there was work, a timer among it,
\* and has returned at the first check that found both queues empty.
RunWhileActiveSeen ==
    /\ pc = "idle"
    /\ result = "returned"
    /\ ready = <<>> /\ scheduled = <<>>
    /\ num_loops >= 2
    /\ faults = 0
    /\ \E h \in DOMAIN handles : handles[h].kind = "timer" /\ handles[h].calls = 1
    /\ \A h \in DOMAIN handles : handles[h].kind # "stop"

\* C8: run_until_complete(f) returns f.result() if and only if f is done
\* when run_forever() returns, raises RuntimeError in every other case, and
\* in both cases has removed the stop done-callback from f.  This for the
\* call made by the application (run_forever() has iterated and returned)
\* and for a call made by a callback while the loop is running (run_forever()
\* returns at once).
RunUntilCompleteResult ==
    [][/\ (mode = "until" /\ pc' = "idle" /\ result' # "raised")
             => /\ result' = IF fut' = "done" THEN "result" ELSE "RuntimeError"
                /\ ~futCb'
       /\ (Dequeues /\ nres' \in {"result", "RuntimeError"})
             => /\ nres' = IF fut = "done" THEN "result" ELSE "RuntimeError"
                /\ ~futCb'
                /\ num_loops' = num_loops]_vars

\* C8's case: the loop was stopped by another stop() before the future was
\* done, and run_until_complete has raised RuntimeError.
RunUntilCompleteSeen ==
    /\ pc = "idle"
    /\ result = "RuntimeError"
    /\ fut = "pending"
    /\ ~futCb
    /\ num_loops >= 1

\* C9: running is true exactly while a thread is inside run*, and so is
\* tid; after run* has returned or raised, in whatever way, running is
\* false and tid is None; and a run* call made by a callback of the running
\* loop returns without an iteration and leaves running true.
RunningIffInsideRun ==
    /\ [](/\ running <=> pc # "idle"
          /\ running <=> tid # 0
          /\ result # "none" => (~running /\ tid = 0 /\ pc = "idle"))
    /\ [][(Dequeues /\ nres' # "none")
             => /\ nres' # "ran"
                /\ num_loops' = num_loops
                /\ lastOut' = "return" => running']_vars

\* C9's case: a callback has called run() inside the running loop, which
\* did nothing, and has then raised an error that went through run*.
RunningIffInsideRunSeen ==
    /\ nres = "noop"
    /\ result = "raised"
    /\ ~running
    /\ tid = 0

\* Handle h has been called, or has been cancelled.
ExecutedOrCancelled(h) ==
    /\ h \in DOMAIN handles
    /\ handles[h].calls >= 1 \/ handles[h].cancelled

\* C10: under run_forever(), a handle submitted by call_soon_threadsafe
\* from another thread is eventually executed by the loop, unless it is
\* cancelled or the loop is stopped first; and a handle submitted while the
\* loop is blocked in poll is executed in the iteration of that poll: the
\* batch measured after the poll takes in every handle then on the ready
\* queue, and when the iteration is over no handle appended before the
\* batch was measured is left on the queue.
ThreadsafeCallRuns ==
    /\ \A h \in Ids :
          (running /\ InSeq(ready, h))
             ~> (ExecutedOrCancelled(h) \/ ~running)
    /\ [][(pc \in {"poll", "drain"} /\ pc' \in {"exec", "head"} /\ running')
             => /\ todo' = Len(ready)
                /\ batchEnd' = appends
                /\ num_loops' = num_loops]_vars
    /\ []((pc = "head" /\ batchEnd > 0)
             => \A i \in DOMAIN ready : handles[ready[i]].seq > batchEnd)

\* C10's case: the loop runs forever, woken by the other thread, and has
\* executed a callback that thread submitted.
ThreadsafeCallSeen ==
    /\ mode = "forever"
    /\ pc = "head"
    /\ thr = "idle"
    /\ ~wake
    /\ num_loops >= 2
    /\ \E h \in DOMAIN handles :
          /\ handles[h].kind = "cb"
          /\ handles[h].calls = 1
          /\ lastDeq = appends

\* The handler of the LoopingCall is with the loop: on the ready queue, in
\* the heap or in an interrupted heappop.
LoopingPending == looping.handler # 0 /\ Pending(looping.handler)

\* C11: once the callback of a LoopingCall has raised, or its asynchronous
\* result has failed, the LoopingCall is cancelled, its handler is not
\* scheduled any more, and the callback is never called again; and the
\* failure does not stop the loop: the step in which the callback fails
\* (or its result, later) raises no error to run* and leaves the loop where
\* it is: running and in the same iteration, with the rest of its batch to
\* go, when the failure is that of the handle just dequeued.
LoopingFailureEndsChain ==
    /\ [](looping.failed => (looping.cancelled /\ ~LoopingPending))
    /\ [][/\ looping.failed
             => /\ looping'.iter = looping.iter
                /\ looping'.late = looping.late
                /\ handles'[looping.handler].calls
                      = handles[looping.handler].calls
          /\ (~looping.failed /\ looping'.failed)
             => /\ running' = running
                /\ result' = result
                /\ num_loops' = num_loops
                /\ IF Dequeues
                   THEN running' /\ todo' = todo - 1
                   ELSE pc' = pc /\ todo' = todo]_vars

\* C11's case: a call_repeatedly callback was called, rescheduled and called
\* again, and failed in the last iteration of a run() that has since
\* returned for want of work, having run another callback too.
LoopingFailureSeen ==
    /\ looping.failed
    /\ looping.interval > 0
    /\ handles[looping.handler].calls = 2
    /\ pc = "idle"
    /\ result = "returned"
    /\ looping.iter = num_loops
    /\ \E h \in DOMAIN handles : handles[h].kind = "cb" /\ handles[h].calls = 1

\* C12: after LoopingCall.cancel() its callback is never invoked again, not
\* even by an occurrence of the handler that is already on the heap or the
\* ready queue: no call is ever made while the LoopingCall is cancelled.
CancelledLoopingNeverCalled == looping.late = 0

\* The number of places the loop holds handle h in.
Occurrences(h) ==
    Cardinality({i \in DOMAIN ready : ready[i] = h})
       + Cardinality({i \in DOMAIN scheduled : scheduled[i] = h})
       + (IF held = h THEN 1 ELSE 0)

\* C13: after LoopingCall.cancel() the looping call is never re-enqueued:
\* no step adds an occurrence of its handler to the heap or the ready
\* queue, so that the callback runs at most once more, the occurrence that
\* was pending, and the chain ends there.
CancelledLoopingNotRequeued ==
    /\ [][looping.cancelled
             => Occurrences(looping.handler)' <= Occurrences(looping.handler)]_vars
    /\ [](looping.cancelled => Occurrences(looping.handler) + looping.late <= 1)

\* A step in which remove_signal_handler has returned or raised (one that
\* changes nothing, False after False, is no step).
Removes == remRet' # remRet /\ remRet' # "none"

\* C14 as the spec has it: remove_signal_handler(sig) returns True if and
\* only if a handle for sig was in the signal table, and then the handle is
\* removed; a second call with no add_signal_handler in between returns
\* False and leaves the table unchanged.
RemoveReturnsWhetherRemoved ==
    /\ [][Removes => /\ remRet' = IF sigh # 0 THEN "True" ELSE "False"
                     /\ sigh' = 0]_vars
    /\ [](remRet # "none" => sigh = 0)

\* C14, amended: remove_signal_handler(sig) returns True only if a handle
\* for sig was in the table and False if and only if none was; with a handle
\* in the table it returns True or, when signal.signal fails, raises; in
\* every case the table has no handle for sig afterwards, so that a second
\* call with no add_signal_handler in between returns False and leaves the
\* table unchanged.
RemoveReturnsOrRaises ==
    /\ [][Removes => /\ (sigh # 0) <=> (remRet' \in {"True", "raised"})
                     /\ (sigh = 0) <=> (remRet' = "False")
                     /\ sigh' = 0
                     /\ handles' = handles]_vars
    /\ [](remRet # "none" => sigh = 0)

\* C14's case: a handler was added, removed with True, and a second
\* remove_signal_handler has returned False.
RemoveTwiceSeen ==
    /\ remRet = "False"
    /\ sigh = 0
    /\ \E h \in DOMAIN handles :
          handles[h].kind = "sig" /\ ~handles[h].cancelled /\ handles[h].calls = 1

\* C15: add_signal_handler(sig, cb) with a valid, catchable sig returns the
\* Handle it has stored in the signal table for sig: in every step that
\* puts a new handle in the table, the value returned is that handle.
AddReturnsHandle ==
    [][(sigh' # 0 /\ sigh' # sigh) => addRet' = <<sigh'>>]_vars

\* C16: num_loops goes up by exactly one with every execution of _run_once,
\* counted when the iteration begins and so whatever way it ends, and no
\* other step changes it: neither the end of an iteration (StopEventLoop, a
\* poll error and KeyboardInterrupt included), nor run*, stop() or a
\* scheduling call.  It never decreases.
NumLoopsCountsIterations ==
    [][num_loops' = IF pc = "head" /\ pc' = "poll"
                    THEN num_loops + 1
                    ELSE num_loops]_vars

\* C16's case: iterations have ended by StopEventLoop and by a poll error
\* that went through run*, and three iterations or more were counted over
\* several run* calls.
NumLoopsSeen ==
    /\ pc = "idle"
    /\ result = "raised"
    /\ faults = 1
    /\ num_loops >= 3
    /\ \E h \in DOMAIN handles : handles[h].kind = "stop" /\ handles[h].calls = 1

\* C17: in each iteration at most todo handles are dequeued, todo being the
\* length of the ready queue measured after the poll and the timer drain: a
\* handle is dequeued only while todo is positive, and it is one that was
\* appended before todo was measured.  So a handle appended during the
\* execution phase, by a running callback or by the other thread, is never
\* executed in that iteration; it is still queued when the iteration ends.
BatchBoundedByTodo ==
    /\ [][/\ Dequeues => (todo >= 1 /\ lastDeq' <= batchEnd)
          /\ (pc \in {"drain", "sift"} /\ pc' \in {"exec", "head"})
                => (todo' = Len(ready) /\ ready' = ready)
          /\ (pc = "exec" /\ pc' = "head")
                => \A i \in DOMAIN ready' : handles'[ready'[i]].seq > batchEnd]_vars
    /\ [](todo >= 0 /\ todo <= Len(ready))

\* C17's case: an iteration has ended with its batch executed, a timer in
\* it, while a handle appended by a callback and one appended by the other
\* thread during the execution phase are left for a later iteration.
BatchBoundedSeen ==
    /\ pc = "head"
    /\ todo = 0
    /\ lastDeq = batchEnd
    /\ \E i, j \in DOMAIN ready :
          /\ handles[ready[i]].kind = "cb"
          /\ handles[ready[j]].kind = "tcb"
          /\ handles[ready[i]].seq > batchEnd
          /\ handles[ready[j]].seq > batchEnd
    /\ \E h \in DOMAIN handles : handles[h].kind = "timer" /\ handles[h].calls = 1

\* The place of a handle in the order of an iteration: 0 for a callback
\* queued before the poll, 1 for a reader queued by handle_events, 2 for a
\* timer promoted from the heap.
PhaseOf(h) ==
    CASE handles[h].kind = "io" -> 1
      [] handles[h].kind = "timer" -> 2
      [] OTHER -> 0

\* The members of the ready queue the order is about: the other thread's
\* handles, which can arrive at any moment, are left aside.
Phased(rdy, upto) ==
    SelectSeq(rdy, LAMBDA h : handles[h].kind # "tcb" /\ handles[h].seq <= upto)

PhasesInOrder(rdy) ==
    \A i, j \in DOMAIN rdy : i < j => PhaseOf(rdy[i]) <= PhaseOf(rdy[j])

\* C18: within one iteration the handles run in this order: those on the
\* ready queue before the poll, then those handle_events pushed for this
\* poll's events, then the timers promoted in this iteration, in the order
\* the heap gave them up.  handle_events and the drain append to the right
\* of the queue, each promoted timer is the one taken from the heap's root,
\* and the execution phase dequeues from the left.  No reader and no timer
\* is on the queue when the poll starts, so the kind of a handle tells when
\* it was appended.
IterationOrder ==
    /\ [](pc \in {"head", "poll"} => \A i \in DOMAIN ready : PhaseOf(ready[i]) = 0)
    /\ [](pc \in {"drain", "sift"} => PhasesInOrder(Phased(ready, appends)))
    /\ [](pc = "exec" => PhasesInOrder(Phased(ready, batchEnd)))
    /\ [][/\ Dequeues => lastDeq' = handles[ready[1]].seq
          /\ (pc = "poll" /\ Len(ready') > Len(ready) /\ appends' > appends
                /\ handles'[ready'[Len(ready')]].kind = "io")
                => SubSeq(ready', 1, Len(ready)) = ready
          /\ (pc \in {"drain", "sift"} /\ appends' > appends
                /\ handles'[ready'[Len(ready')]].kind = "timer")
                => /\ ready' = Append(ready, IF pc = "sift" THEN held
                                             ELSE scheduled[1])
                   /\ \A i \in DOMAIN ready :
                         handles[ready[i]].seq < handles'[ready'[Len(ready')]].seq]_vars

\* C18's case: the first iteration has run a callback queued before the
\* poll, then a reader, then the first of two promoted timers, and the
\* second timer, appended last, is the one handle left of the batch.
IterationOrderSeen ==
    /\ pc = "exec"
    /\ num_loops = 1
    /\ todo = 1
    /\ Len(ready) = 1
    /\ handles[ready[1]].kind = "timer"
    /\ handles[ready[1]].seq = batchEnd
    /\ lastDeq = batchEnd - 1
    /\ \E c, r, t \in DOMAIN handles :
          /\ handles[c].kind = "cb" /\ handles[c].calls = 1
          /\ handles[r].kind = "io" /\ handles[r].calls = 1
          /\ handles[t].kind = "timer" /\ handles[t].calls = 1

\* The earliest deadline among the timers in the heap.
EarliestDeadline ==
    CHOOSE w \in {handles[scheduled[i]].when : i \in DOMAIN scheduled} :
        \A i \in DOMAIN scheduled : w <= handles[scheduled[i]].when

\* The timeout C19 states for the poll.
StatedTimeout ==
    IF ready # <<>> THEN 0
    ELSE IF scheduled # <<>>
         THEN LET d == EarliestDeadline - now
                  m == IF d > 0 THEN d ELSE 0
              IN  IF m < PollTimeout THEN m ELSE PollTimeout
         ELSE PollTimeout

\* C19: the timeout given to io.poll is 0 when the ready queue is not empty,
\* else min(poll_timeout, max(0, earliest deadline - now)) when the heap is
\* not empty, else poll_timeout.  It is never negative and never above
\* poll_timeout, and the loop is never blocked in the poll at or after the
\* earliest deadline of the timers in the heap.
PollTimeoutAsStated ==
    /\ [][(pc = "head" /\ pc' = "poll") => timeout' = StatedTimeout]_vars
    /\ [](pc = "poll" => (timeout >= 0 /\ timeout <= PollTimeout))
    /\ []((pc = "poll" /\ timeout > 0 /\ scheduled # <<>>)
             => now < EarliestDeadline)

\* A call_every is installed and neither it nor its handler is cancelled.
EveryActive ==
    /\ looping.handler # 0
    /\ looping.interval = 0
    /\ ~looping.cancelled
    /\ ~handles[looping.handler].cancelled

\* C20: while a call_every whose callback returns at once and without error
\* is not cancelled, its handler is on the ready queue, once, whenever the
\* loop looks at the queue; so every iteration polls with timeout 0, run()
\* never finds the loop inactive and does not return, and the callback is
\* called in every iteration once: a call is the first of its iteration,
\* and an iteration does not end without one.
EveryIterationOnce ==
    /\ [](EveryActive => /\ Occurrences(looping.handler) = 1
                         /\ InSeq(ready, looping.handler))
    /\ [][/\ (EveryActive /\ pc = "head" /\ pc' = "poll") => timeout' = 0
          /\ (EveryActive /\ pc # "idle")
                => (pc' # "idle" /\ running' = running /\ result' = result)
          /\ (EveryActive /\ Dequeues /\ ready[1] = looping.handler)
                => (looping.iter < num_loops /\ looping'.iter = num_loops)
          /\ (EveryActive' /\ pc \in {"drain", "exec"} /\ pc' = "head")
                => looping'.iter = num_loops]_vars

\* C20's case: the callback has been called in each of MaxLoops iterations,
\* the last of which has ended, while a timer that is not due waits in the
\* heap and another callback has run.
EveryIterationSeen ==
    /\ EveryActive
    /\ pc = "head"
    /\ num_loops = MaxLoops
    /\ looping.iter = MaxLoops
    /\ handles[looping.handler].calls = 2
    /\ scheduled # <<>>
    /\ handles[scheduled[1]].when > now
    /\ \E h \in DOMAIN handles : handles[h].kind = "cb" /\ handles[h].calls = 1

\* C21: cancellation is sticky.  For every handle the loop knows, the
\* handler of a call_repeatedly included, no step sets a cancelled flag
\* that is true back to false.
CancelIsSticky ==
    [][\A h \in DOMAIN handles : handles[h].cancelled => handles'[h].cancelled]_vars

\* The cancelled timers that are in the heap.
CancelledInHeap ==
    {h \in DOMAIN handles : /\ handles[h].kind = "timer"
                            /\ handles[h].cancelled
                            /\ InSeq(scheduled, h)}

\* C22: cancelling a TimerHandle changes its cancelled flag and nothing
\* else: the heap and the ready queue keep their entries and the loop stays
\* active.  While a cancelled timer is in the heap run() does not find the
\* loop inactive and goes on iterating; the timer leaves the heap only when
\* its deadline has come, popped by the drain on its way to the ready queue;
\* and the batch drops it from the queue without calling it.
CancelledTimerLazy ==
    [][/\ \A h \in DOMAIN handles :
             (handles[h].kind = "timer" /\ ~handles[h].cancelled
                /\ handles'[h].cancelled)
                => /\ handles' = [handles EXCEPT ![h].cancelled = TRUE]
                   /\ ready' = ready
                   /\ scheduled' = scheduled
                   /\ held' = held
                   /\ active'
                   /\ pc' = pc
                   /\ running' = running
       /\ (CancelledInHeap # {} /\ pc = "head" /\ mode = "run")
             => (pc' \in {"head", "poll"} /\ running' /\ result' = result)
       /\ \A h \in CancelledInHeap :
             ~InSeq(scheduled', h)
                => /\ pc \in {"drain", "sift"}
                   /\ handles[h].when <= now
                   /\ held' = h \/ InSeq(ready', h)
       /\ \A h \in DOMAIN handles :
             (handles[h].kind = "timer" /\ handles[h].cancelled)
                => handles'[h].calls = handles[h].calls
       /\ (Dequeues /\ handles[ready[1]].kind = "timer"
             /\ handles[ready[1]].cancelled)
                => (ready' = Tail(ready) /\ scheduled' = scheduled)]_vars

\* C23: when io.poll raises KeyboardInterrupt the iteration ends there: no
\* timer is drained and no callback is called, run() or run_forever()
\* returns to its caller without raising, the loop is not running
\* afterwards, and the ready queue and the heap keep their handles.  (In
\* SpecInterrupt a fault is a KeyboardInterrupt in the poll.)
KeyboardInterruptEndsRun ==
    [][faults' # faults
         => /\ pc = "poll"
            /\ mode \in {"run", "forever"}
            /\ pc' = "idle"
            /\ result' = "returned"
            /\ ~running'
            /\ ready' = ready
            /\ scheduled' = scheduled
            /\ handles' = handles
            /\ lastDeq' = lastDeq
            /\ appends' = appends]_vars

\* C23's case: a run_forever() (or run()) has returned on a
\* KeyboardInterrupt in the poll of a later iteration, leaving a callback
\* on the ready queue and a due timer in the heap, neither of them called.
KeyboardInterruptSeen ==
    /\ faults = 1
    /\ pc = "idle"
    /\ result = "returned"
    /\ ~running
    /\ num_loops >= 2
    /\ ready # <<>>
    /\ handles[ready[1]].calls = 0
    /\ scheduled # <<>>
    /\ handles[scheduled[1]].when <= now
    /\ handles[scheduled[1]].calls = 0

\* C24: a signal that arrives for an installed handle that is not cancelled
\* does not have its callback called by _handle_signal: the step of the
\* arrival appends the handle to the ready queue and wakes the poller, and
\* the callback of a signal handle is only ever called by the batch, as the
\* handle it dequeues, never in the poll or inside another callback.
SignalCallbackInBatch ==
    [][\A h \in DOMAIN handles :
          (handles[h].kind = "sig" /\ handles'[h].calls # handles[h].calls)
             => /\ pc = "exec"
                /\ Dequeues
                /\ ready[1] = h]_vars

\* C25: no wakeup is lost.  Whenever the loop is blocked in the poll with a
\* positive timeout while a handle is on the ready queue, a write to the
\* waker is pending: made and not yet read, or about to be made by the
\* submitting thread, which then finds the loop running and does write.  So
\* such a poll always comes to an end.
NoLostWakeup ==
    /\ []((pc = "poll" /\ timeout > 0 /\ ready # <<>>)
             => (wake \/ thr = "wake"))
    /\ [][(pc = "poll" /\ thr = "wake" /\ thr' = "idle") => wake']_vars
    /\ (pc = "poll" /\ ready # <<>>) ~> (pc # "poll")

\* C25's case: the loop went into a blocking poll with an empty ready
\* queue; the other thread has since appended a handle and written to the
\* waker, and the poll is about to return.
NoLostWakeupSeen ==
    /\ pc = "poll"
    /\ timeout > 0
    /\ ready # <<>>
    /\ wake
    /\ thr = "idle"
    /\ num_loops >= 2

\* The _raise_stop_event_loop handles on the ready queue.
StopsQueued == {h \in DOMAIN handles : handles[h].kind = "stop" /\ InSeq(ready, h)}

\* C26: a stop request is consumed only by the iteration that dequeues it.
\* A _raise_stop_event_loop handle leaves the ready queue only as the head
\* the batch dequeues, whether the loop runs or not when stop() is called
\* and however many are queued; the dequeue ends the run* call there, the
\* handles behind it staying on the queue uncalled; and no handle that was
\* on the queue when a batch was measured outlasts its iteration, so that a
\* stop handle left on the queue is dequeued in the first iteration of the
\* next run(), run_forever() or run_until_complete().
StopConsumedByDequeue ==
    /\ [][\A h \in StopsQueued :
             ~InSeq(ready', h)
                => /\ pc = "exec"
                   /\ Dequeues
                   /\ ready[1] = h
                   /\ running
                   /\ ready' = Tail(ready)
                   /\ pc' = "idle"
                   /\ ~running'
                   /\ result' # "raised"
                   /\ num_loops' = num_loops
                   /\ \A g \in DOMAIN handles :
                         g # h => handles'[g] = handles[g]]_vars
    /\ []((running /\ pc = "head" /\ batchEnd > 0)
             => \A h \in StopsQueued : handles[h].seq > batchEnd)
    /\ []((running /\ pc = "exec")
             => \A h \in StopsQueued :
                   handles[h].seq <= batchEnd => lastDeq < handles[h].seq)

\* C26's case: stop() was called twice while the loop was not running; the
\* first run* call has ended in its first iteration on the first stop
\* handle, and the second, in its first iteration too, on the other one,
\* leaving the callback queued behind it uncalled.
StopConsumedSeen ==
    /\ pc = "idle"
    /\ ~running
    /\ result = "returned"
    /\ num_loops = 2
    /\ thr = "idle"
    /\ \E a, b, c \in DOMAIN handles :
          /\ a # b
          /\ handles[a].kind = "stop" /\ handles[a].calls = 1
          /\ handles[b].kind = "stop" /\ handles[b].calls = 1
          /\ handles[c].kind = "cb" /\ handles[c].calls = 0
          /\ ready = <<c>>

=============================================================================
